---------------------------- MODULE Spec2Model ----------------------------
(***************************************************************************)
(* Cycle-relative normalisation and support detection of the repository's  *)
(* two batch scripts:                                                      *)
(*   btc_accumulation_support.py  (per halving cycle, calendar-day offsets) *)
(*   stocks_accumulation.py       (per phase, trading-day ordinals)         *)
(* and the stages of the dashboard script:                                 *)
(*   btc_dashboard.py             (fetch, load, build, write)               *)
(*                                                                         *)
(* Dates are day numbers.  Prices are integers.  A percent is kept as the  *)
(* exact quotient (value - ref) * 100 / ref, as the pair of its numerator  *)
(* and the divisor, so that the divisor used for a point stays visible and *)
(* a zero divisor gives what IEEE division gives (inf, -inf, NaN).         *)
(* Rounding of the float quotient is not modelled.                         *)
(***************************************************************************)
EXTENDS Integers, Sequences, FiniteSets, TLC

VARIABLES
    script,     \* which script this run executes: "btc", "stocks", "dashboard"
    btc,        \* btc script: the loaded price table, rows [date, btc_price]
    cycles,     \* btc script: the CYCLES table
    df,         \* stocks script: the downloaded frame, rows [date, price]
    phases,     \* stocks script: the ACCUMULATION_STARTS list of the ticker
    i,          \* position of the loop: cycles/phases/endpoints handled so far
    results,    \* what each handled cycle/phase computed, in loop order
    console,    \* lines printed so far (dashboard: and the sleeps between)
    saved,      \* the figure file / the dashboard file has been written
    pc,         \* "loop", "done" or "crashed"; dashboard: "fetch", "load",
                \* "build", "write", "done" or "crashed"
    files,      \* dashboard: the content of the JSON file of each endpoint
    csv,        \* the file btc-usd-max.csv exists
    current_price,  \* dashboard: what fetch_data() returned
    merged,     \* dashboard: the frame load_data() returned
    fig         \* dashboard: what build_dashboard() put in the figure

vars == <<script, btc, cycles, df, phases, i, results, console, saved, pc,
          files, csv, current_price, merged, fig>>

\* the variables only the dashboard script uses
dashVars == <<files, csv, current_price, merged, fig>>

\* the variables only the two batch scripts use
batchVars == <<btc, cycles, df, phases, results>>

(***************************************************************************)
(* Bounds of the model.                                                    *)
(***************************************************************************)
MaxLen  == 3    \* rows of a generated btc price table
MaxRuns == 2    \* constant-price runs of a generated stock frame
MaxRows == 4    \* rows of a frame build_dashboard() is called with

(***************************************************************************)
(* Constants of the programs.                                              *)
(***************************************************************************)
PLOT_DAYS       == 1100   \* btc: days plotted after the halving
TODAY           == 677    \* btc: 2026-02-25, counted from 2024-04-19
ACCUM_DAYS      == 200    \* btc: the accumulation window, days <= 200
STOCK_PLOT_DAYS == 504    \* stocks: PLOT_DAYS
STOCK_TODAY     == 1157   \* stocks: 2026-02-26, counted from 2022-12-27
ACCUM_TD        == 200    \* stocks: the accumulation window, td <= 200
MIN_ROWS        == 10     \* stocks: a shorter chunk is skipped
NUM_ENDPOINTS   == 4      \* dashboard: the entries of the endpoints list
DASH_START      == 1      \* dashboard: 2017-01-01, the first day load_data keeps
MVRV_FAIR_TOP   == 37     \* dashboard: 3.7, in tenths
MVRV_SELL       == 70     \* dashboard: 7, in tenths

None    == <<>>
Some(x) == <<x>>

Min2(a, b) == IF a <= b THEN a ELSE b

Abs(n) == IF n < 0 THEN -n ELSE n

Sgn(n) == IF n < 0 THEN -1 ELSE IF n > 0 THEN 1 ELSE 0

(***************************************************************************)
(* Float arithmetic of a percent column.                                   *)
(***************************************************************************)
\* ((price - ref) / ref) * 100 without the subtraction: price / ref * 100.
PctNoSubtract(price, ref) == [num |-> price * 100, den |-> ref]

\* ((price - ref) / ref) * 100
Pct(price, ref) == [num |-> (price - ref) * 100, den |-> ref]

IsNaN(p) == p.den = 0 /\ p.num = 0

\* -1: -inf, 0: finite, 1: +inf (not for NaN)
Class(p) == IF p.den # 0 THEN 0 ELSE Sgn(p.num)

PosInf == [num |-> 1, den |-> 0]

\* a < b as floats compare: false when either is NaN
PctLT(a, b) ==
    /\ ~IsNaN(a)
    /\ ~IsNaN(b)
    /\ \/ Class(a) < Class(b)
       \/ /\ Class(a) = 0
          /\ Class(b) = 0
          /\ a.num * Sgn(a.den) * Abs(b.den) < b.num * Sgn(b.den) * Abs(a.den)

\* a >= b, the comparison a mistaken support test would use
PctGE(a, b) == ~IsNaN(a) /\ ~IsNaN(b) /\ ~PctLT(a, b)

\* a > b
PctGT(a, b) == PctLT(b, a)

PctEQ(a, b) == ~IsNaN(a) /\ ~IsNaN(b) /\ ~PctLT(a, b) /\ ~PctLT(b, a)

\* bool(x) of a float: only 0.0 is false (NaN is true)
Truthy(p) == IsNaN(p) \/ p.num # 0

(***************************************************************************)
(* pandas reductions over a pct column ps (a sequence of percents).        *)
(***************************************************************************)
NonNaN(ps) == {k \in DOMAIN ps : ~IsNaN(ps[k])}

\* Series.max() where Series.min() is meant.
SeriesMax(ps) ==
    IF NonNaN(ps) = {} THEN [num |-> 0, den |-> 0]
    ELSE LET vals == {ps[k] : k \in NonNaN(ps)}
         IN  CHOOSE v \in vals : \A w \in vals : ~PctLT(v, w)

\* Series.min(), skipna: the least value that is not NaN; NaN when none is
SeriesMin(ps) ==
    IF NonNaN(ps) = {} THEN [num |-> 0, den |-> 0]
    ELSE LET vals == {ps[k] : k \in NonNaN(ps)}
         IN  CHOOSE v \in vals : \A w \in vals : ~PctLT(w, v)

\* Series.idxmin() returning the last position of the minimum.
IdxMinLast(ps, fill) ==
    LET m == SeriesMin(ps)
        hit(k) == PctEQ(ps[k], m)
    IN  CHOOSE k \in DOMAIN ps : hit(k) /\ \A j \in (k + 1)..Len(ps) : ~hit(j)

\* Series.idxmin(), skipna: the first position of the minimum.  With fill the
\* NaN entries are compared as +inf (nanargmin's fill value), so that among
\* NaN and +inf entries only, the first entry is returned even if it is NaN.
\* Only called on a column that is not empty and not all NaN.
IdxMin(ps, fill) ==
    LET m == SeriesMin(ps)
        v(k) == IF fill /\ IsNaN(ps[k]) THEN PosInf ELSE ps[k]
        hit(k) == PctEQ(v(k), m)
    IN  CHOOSE k \in DOMAIN ps : hit(k) /\ \A j \in 1..(k - 1) : ~hit(j)

\* idxmin() raises on an empty column; on an all-NaN column it raises or
\* returns NaN, which the following .loc[] lookup rejects
IdxMinRaises(ps) == NonNaN(ps) = {}

Column(rows) == [k \in DOMAIN rows |-> rows[k].pct]

\* chunk['pct'] with every row after the first measured against the row before
\* it (a day-over-day change) instead of against the one reference price.
PctColumnChained(prices, ref) ==
    [k \in DOMAIN prices |->
        Pct(prices[k], IF k = 1 THEN ref ELSE prices[k - 1])]

\* chunk['pct'] = ((chunk[price] - ref) / ref) * 100, one reference for the
\* whole column (btc: c['top_price']; stocks: bottom_price)
PctColumn(prices, ref) == [k \in DOMAIN prices |-> Pct(prices[k], ref)]

(***************************************************************************)
(* btc_accumulation_support.py: one pass of the loop over CYCLES.          *)
(***************************************************************************)
\* end = min(h + PLOT_DAYS, TODAY) for every cycle, confirmed or not.
BtcEndAlwaysCapped(c) == Min2(c.halving + PLOT_DAYS, TODAY)

\* end = h + PLOT_DAYS, capped at TODAY for a cycle that is not confirmed
BtcEnd(c) ==
    IF c.confirmed THEN c.halving + PLOT_DAYS
    ELSE Min2(c.halving + PLOT_DAYS, TODAY)

\* chunk = btc[mask] with the columns days and pct added
BtcChunk(c) ==
    LET kept == SelectSeq(btc, LAMBDA r : r.date >= c.halving /\ r.date <= BtcEnd(c))
        pct  == PctColumn([k \in DOMAIN kept |-> kept[k].btc_price], c.top_price)
    IN  [k \in DOMAIN kept |->
            [date      |-> kept[k].date,
             btc_price |-> kept[k].btc_price,
             days      |-> kept[k].date - c.halving,
             pct       |-> pct[k]]]

BtcTopDay(c) == c.top - c.halving

\* accum = chunk[chunk['days'] <= 200]
BtcAccum(chunk) == SelectSeq(chunk, LAMBDA r : r.days <= ACCUM_DAYS)

\* post_top = chunk[chunk['days'] >= top_day]: the top's own day included.
BtcPostTopInclusive(chunk, top_day) == SelectSeq(chunk, LAMBDA r : r.days >= top_day)

\* post_top = chunk[chunk['days'] > top_day]
BtcPostTop(chunk, top_day) == SelectSeq(chunk, LAMBDA r : r.days > top_day)

\* held = bear_low_pct >= low_pct: equality counted as held.
BtcHeldGE(bear_low_pct, low_pct) ==
    IF bear_low_pct # None THEN Some(PctGE(bear_low_pct[1], low_pct)) ELSE None

\* held = bear_low_pct < low_pct: the comparison turned around.
BtcHeldLT(bear_low_pct, low_pct) ==
    IF bear_low_pct # None THEN Some(PctLT(bear_low_pct[1], low_pct)) ELSE None

\* held = (bear_low_pct > low_pct) if bear_low_pct is not None else None
BtcHeld(bear_low_pct, low_pct) ==
    IF bear_low_pct # None THEN Some(PctGT(bear_low_pct[1], low_pct)) ELSE None

\* the verdict line printed for every cycle, 'YES' if held else 'NO', also
\* when held is None.
BtcPrintAlways(n, c, bear_low_pct, held) ==
    <<  <<n, "name">>, <<n, "Accumulation low">>,
        <<n, IF held = Some(TRUE) THEN "Support held: YES" ELSE "Support held: NO">>,
        <<n, "">> >>

\* the lines 108-115 print for one cycle
BtcPrint(n, c, bear_low_pct, held) ==
    <<  <<n, "name">>, <<n, "Accumulation low">> >>
    \o (IF bear_low_pct # None /\ Truthy(bear_low_pct[1])
        THEN <<  <<n, "Bear market low">>,
                 <<n, IF held[1] THEN "Support held: YES" ELSE "Support held: NO">> >>
             \o (IF c.exclude THEN << <<n, "Note: Excluded">> >> ELSE <<>>)
        ELSE <<>>)
    \o << <<n, "">> >>

\* the status badge drawn for one cycle (lines 210-225), None when none is
BtcBadge(c, held) ==
    IF held # None
    THEN Some(IF c.exclude THEN "Excluded"
              ELSE IF held[1] THEN "held as support" ELSE "broken")
    ELSE None

\* idxmin() of accum or of post_top raises: the script ends with a traceback
BtcRaises(c) ==
    LET chunk    == BtcChunk(c)
        post_top == BtcPostTop(chunk, BtcTopDay(c))
    IN  \/ IdxMinRaises(Column(BtcAccum(chunk)))
        \/ Len(post_top) > 0 /\ IdxMinRaises(Column(post_top))

\* the values lines 84-105 compute for cycle c
BtcAnalyse(c, fill) ==
    LET chunk    == BtcChunk(c)
        top_day  == BtcTopDay(c)
        accum    == BtcAccum(chunk)
        low_idx  == IdxMin(Column(accum), fill)
        post_top == BtcPostTop(chunk, top_day)
        bear_idx == IdxMin(Column(post_top), fill)
        bear_low_pct == IF Len(post_top) > 0
                        THEN Some(SeriesMin(Column(post_top))) ELSE None
        low_pct  == accum[low_idx].pct
        held     == BtcHeld(bear_low_pct, low_pct)
    IN  [chunk          |-> chunk,
         ref            |-> c.top_price,
         anchor2        |-> top_day,
         low_pct        |-> low_pct,
         low_day        |-> accum[low_idx].days,
         low_price      |-> accum[low_idx].btc_price,
         bear_low_pct   |-> bear_low_pct,
         bear_low_day   |-> IF Len(post_top) > 0
                            THEN Some(post_top[bear_idx].days) ELSE None,
         bear_low_price |-> IF Len(post_top) > 0
                            THEN Some(post_top[bear_idx].btc_price) ELSE None,
         held           |-> held,
         badge          |-> BtcBadge(c, held)]

\* one pass of "for ax, c in zip(axes.flat, CYCLES)"
BtcCycle ==
    /\ script = "btc"
    /\ pc = "loop"
    /\ i < Len(cycles)
    /\ LET c == cycles[i + 1]
       IN  IF BtcRaises(c)
           THEN /\ pc' = "crashed"
                /\ UNCHANGED <<i, results, console>>
           ELSE \E fill \in BOOLEAN :
                   LET r == BtcAnalyse(c, fill)
                   IN  /\ results' = Append(results, r)
                       /\ console' = console \o BtcPrint(i + 1, c, r.bear_low_pct, r.held)
                       /\ i' = i + 1
                       /\ pc' = pc
    /\ UNCHANGED <<script, btc, cycles, df, phases, saved>>
    /\ UNCHANGED dashVars

\* after the loop: fig.savefig(path), the closing prints
BtcSave ==
    /\ script = "btc"
    /\ pc = "loop"
    /\ i = Len(cycles)
    /\ saved' = TRUE
    /\ console' = console \o << <<0, "Saved">>, <<0, "All done.">> >>
    /\ pc' = "done"
    /\ UNCHANGED <<script, btc, cycles, df, phases, i, results>>
    /\ UNCHANGED dashVars

(***************************************************************************)
(* Inputs of the btc script.                                               *)
(***************************************************************************)
BtcDays   == {0, 50, 200, 201, 600, 800}
BtcPrices == {40, 100}

\* the tested example series, and the same with a last price of 70
Scenario(last) ==
    << [date |-> 0,   btc_price |-> 100],
       [date |-> 50,  btc_price |-> 40],
       [date |-> 200, btc_price |-> 60],
       [date |-> 400, btc_price |-> 90],
       [date |-> 800, btc_price |-> last] >>

\* rows on both sides of TODAY and of the end of the plotted span of a
\* cycle that starts on day 0 or on day 50
Horizon ==
    << [date |-> 0,    btc_price |-> 100],
       [date |-> 100,  btc_price |-> 40],
       [date |-> 677,  btc_price |-> 100],
       [date |-> 678,  btc_price |-> 40],
       [date |-> 1100, btc_price |-> 100],
       [date |-> 1101, btc_price |-> 40],
       [date |-> 1150, btc_price |-> 100],
       [date |-> 1151, btc_price |-> 40] >>

\* what read_csv followed by sort_values('date') can leave: rows in
\* ascending date order, rows of one date in any order
Sorted(t) == \A k \in 1..(Len(t) - 1) : t[k].date <= t[k + 1].date

BtcTables ==
    {Scenario(30), Scenario(70), Horizon}
    \cup {t \in UNION {[1..n -> [date : BtcDays, btc_price : BtcPrices]] : n \in 0..MaxLen} :
            Sorted(t)}

Cycle(h, t, p, conf, excl) ==
    [halving |-> h, top |-> t, top_price |-> p, confirmed |-> conf, exclude |-> excl]

CycleTables ==
    { << Cycle(0, 200, 100, TRUE, FALSE), Cycle(0, 400, 60, FALSE, FALSE) >>,
      << Cycle(50, 250, 100, TRUE, TRUE), Cycle(0, 200, 40, FALSE, TRUE) >> }

(***************************************************************************)
(* stocks_accumulation.py: one pass of the loop over a ticker's phases.    *)
(* The outer loop over the tickers repeats this loop on each ticker's own  *)
(* frame; one ticker is modelled.                                          *)
(***************************************************************************)
\* end_dt = min(bottom_dt + pd.Timedelta(days=PLOT_DAYS * 2), TODAY)
StockEnd(bottom_dt) == Min2(bottom_dt + STOCK_PLOT_DAYS * 2, STOCK_TODAY)

\* chunk = df[mask]
StockSlice(bottom_dt) ==
    SelectSeq(df, LAMBDA r : r.date >= bottom_dt /\ r.date <= StockEnd(bottom_dt))

\* bottom_price = float(chunk['price'].iloc[0])
StockBottomPrice(kept) == kept[1].price

\* chunk with the columns td = range(len(chunk)) and pct added
StockChunk(kept) ==
    LET pct == PctColumn([k \in DOMAIN kept |-> kept[k].price], StockBottomPrice(kept))
    IN  [k \in DOMAIN kept |->
            [date  |-> kept[k].date,
             price |-> kept[k].price,
             td    |-> k - 1,
             pct   |-> pct[k]]]

\* first200 = chunk[chunk['td'] <= 200]
StockFirst200(chunk) == SelectSeq(chunk, LAMBDA r : r.td <= ACCUM_TD)

\* after200 = chunk[chunk['td'] > 200]
StockAfter200(chunk) == SelectSeq(chunk, LAMBDA r : r.td > ACCUM_TD)

\* held = False instead of None when there is no row after day 200.
StockHeldNoNone(after200, low_pct) ==
    IF Len(after200) > 0
    THEN Some(PctGT(SeriesMin(Column(after200)), low_pct))
    ELSE Some(FALSE)

\* held = after_low > low_pct if len(after200) > 0, else None
StockHeld(after200, low_pct) ==
    IF Len(after200) > 0
    THEN Some(PctGT(SeriesMin(Column(after200)), low_pct))
    ELSE None

\* the lines 112-121 print for one phase
StockPrint(n, after_low, held) ==
    <<  <<n, "label">>, <<n, "Bottom date">>, <<n, "200d accum low">> >>
    \o (IF after_low # None
        THEN <<  <<n, "Post-200d low">>,
                 <<n, IF held[1] THEN "Support held: YES" ELSE "Support held: NO">> >>
        ELSE <<>>)

\* the status text drawn for one phase (lines 151-156), None when none is
StockBadge(held) ==
    IF held # None THEN Some(IF held[1] THEN "Held" ELSE "Broken") ELSE None

\* idxmin() of first200 or of after200 raises: the script ends with a traceback
StockRaises(kept) ==
    LET chunk    == StockChunk(kept)
        after200 == StockAfter200(chunk)
    IN  \/ IdxMinRaises(Column(StockFirst200(chunk)))
        \/ Len(after200) > 0 /\ IdxMinRaises(Column(after200))

\* the values lines 84-110 compute for a chunk of at least 10 rows
StockAnalyse(kept, fill) ==
    LET chunk    == StockChunk(kept)
        first200 == StockFirst200(chunk)
        low_idx  == IdxMin(Column(first200), fill)
        low_pct  == first200[low_idx].pct
        after200 == StockAfter200(chunk)
        after_idx == IdxMin(Column(after200), fill)
    IN  [chunk        |-> chunk,
         ref          |-> StockBottomPrice(kept),
         anchor2      |-> ACCUM_TD,
         low_pct      |-> low_pct,
         low_td       |-> first200[low_idx].td,
         low_price    |-> first200[low_idx].price,
         after_low    |-> IF Len(after200) > 0
                          THEN Some(SeriesMin(Column(after200))) ELSE None,
         after_low_td |-> IF Len(after200) > 0
                          THEN Some(after200[after_idx].td) ELSE None,
         after_low_px |-> IF Len(after200) > 0
                          THEN Some(after200[after_idx].price) ELSE None,
         held         |-> StockHeld(after200, low_pct),
         badge        |-> StockBadge(StockHeld(after200, low_pct))]

\* one pass of "for phase in phases"
StockPhase ==
    /\ script = "stocks"
    /\ pc = "loop"
    /\ i < Len(phases)
    /\ LET kept == StockSlice(phases[i + 1])
       IN  IF Len(kept) < MIN_ROWS
           THEN \* continue
                /\ i' = i + 1
                /\ UNCHANGED <<results, console, pc>>
           ELSE IF StockRaises(kept)
           THEN /\ pc' = "crashed"
                /\ UNCHANGED <<i, results, console>>
           ELSE \E fill \in BOOLEAN :
                   LET r == StockAnalyse(kept, fill)
                   IN  /\ results' = Append(results, r)
                       /\ console' = console \o StockPrint(i + 1, r.after_low, r.held)
                       /\ i' = i + 1
                       /\ pc' = pc
    /\ UNCHANGED <<script, btc, cycles, df, phases, saved>>
    /\ UNCHANGED dashVars

\* after the loops: fig.savefig(path), print Saved
StockSave ==
    /\ script = "stocks"
    /\ pc = "loop"
    /\ i = Len(phases)
    /\ saved' = TRUE
    /\ console' = console \o << <<0, "Saved">> >>
    /\ pc' = "done"
    /\ UNCHANGED <<script, btc, cycles, df, phases, i, results>>
    /\ UNCHANGED dashVars

(***************************************************************************)
(* Inputs of the stocks script: a frame is given by runs of equal closing  *)
(* prices, [n, price] for n consecutive rows, and the calendar days        *)
(* between two rows.                                                       *)
(***************************************************************************)
RunLens     == {1, 9, 201}
StockPrices == {0, 40, 100}
StockSteps  == {1, 3}

\* the rows of the runs before the j-th
RECURSIVE RowsBefore(_, _)
RowsBefore(runs, j) == IF j <= 1 THEN 0 ELSE RowsBefore(runs, j - 1) + runs[j - 1].n

Frame(runs, step) ==
    LET total == RowsBefore(runs, Len(runs) + 1)
        run(k) == CHOOSE j \in DOMAIN runs :
                     RowsBefore(runs, j) < k /\ k <= RowsBefore(runs, j) + runs[j].n
    IN  [k \in 1..total |-> [date |-> (k - 1) * step, price |-> runs[run(k)].price]]

StockFrames ==
    {Frame(runs, step) :
        runs \in UNION {[1..n -> [n : RunLens, price : StockPrices]] : n \in 1..MaxRuns},
        step \in StockSteps}

PhaseTables == { <<0, 1>>, <<200>> }

(***************************************************************************)
(* btc_dashboard.py: fetch_data(), load_data(), build_dashboard() and the  *)
(* write of the HTML file, in the order of the main block.  The JSON file  *)
(* of an endpoint is "absent", "cached" (written by an earlier run),       *)
(* "fresh" (written by this run) or "empty" (opened for writing and left   *)
(* without a complete JSON text).  A file that holds a JSON text is taken  *)
(* to hold rows with the endpoint's fields, and an existing CSV to hold a  *)
(* price for a date of those rows.                                         *)
(***************************************************************************)
\* what one pass of the endpoints loop can meet:
\*   "request"  requests.get raises (no connection, timeout)
\*   "status"   resp.raise_for_status() raises
\*   "open"     open(path, 'w') raises (the path cannot be written)
\*   "json"     resp.json() raises, inside the with block
\*   "write"    json.dump raises part way (the disk is full)
Outcomes == {"ok", "request", "status", "open", "json", "write"}

\* except requests.RequestException: only the request's own errors caught.
CaughtRequestOnly(outcome) == outcome \in {"request", "status"}

\* except Exception as e
Caught(outcome) == TRUE

\* the file after the try block of lines 46-53: open(path, 'w') empties or
\* creates the file before resp.json() is evaluated and before json.dump
\* writes
FileAfter(content, outcome) ==
    CASE outcome = "ok"               -> "fresh"
      [] outcome \in {"json", "write"} -> "empty"
      [] OTHER                        -> content

\* one pass of "for url, filename in endpoints"
Fetch ==
    /\ script = "dashboard"
    /\ pc = "fetch"
    /\ i < NUM_ENDPOINTS
    /\ \E outcome \in Outcomes :
          /\ files' = [files EXCEPT ![i + 1] = FileAfter(@, outcome)]
          /\ IF outcome # "ok" /\ ~Caught(outcome)
             THEN /\ pc' = "crashed"
                  /\ UNCHANGED <<i, console>>
             ELSE /\ console' = console \o
                        << <<i + 1, IF outcome = "ok" THEN "ok" ELSE "failed">>,
                           <<i + 1, "sleep">> >>
                  /\ i' = i + 1
                  /\ pc' = pc
    /\ UNCHANGED <<script, saved, csv, current_price, merged, fig>>
    /\ UNCHANGED batchVars

\* the prices the CoinGecko request can return
DashPrices == {0, 50000}

\* fetch_data() that returns None as soon as a metric endpoint failed,
\* whatever the CoinGecko request gave.
FetchPriceNeedsMetrics ==
    /\ script = "dashboard"
    /\ pc = "fetch"
    /\ i = NUM_ENDPOINTS
    /\ \/ \E price \in DashPrices :
             /\ current_price' =
                    IF \E k \in 1..NUM_ENDPOINTS : console[2 * k - 1][2] = "failed"
                    THEN None ELSE Some(price)
             /\ console' = console \o << <<0, "CoinGecko ok">> >>
       \/ /\ current_price' = None
          /\ console' = console \o << <<0, "CoinGecko failed">> >>
    /\ pc' = "load"
    /\ UNCHANGED <<script, i, saved, files, csv, merged, fig>>
    /\ UNCHANGED batchVars

\* lines 57-68: the CoinGecko request, the return of fetch_data()
FetchPrice ==
    /\ script = "dashboard"
    /\ pc = "fetch"
    /\ i = NUM_ENDPOINTS
    /\ \/ \E price \in DashPrices :
             /\ current_price' = Some(price)
             /\ console' = console \o << <<0, "CoinGecko ok">> >>
       \/ /\ current_price' = None
          /\ console' = console \o << <<0, "CoinGecko failed">> >>
    /\ pc' = "load"
    /\ UNCHANGED <<script, i, saved, files, csv, merged, fig>>
    /\ UNCHANGED batchVars

\* read_json(filename) raises: open(path) on a missing file, json.load on
\* a file without a JSON text
Unreadable(k) == files[k] \in {"absent", "empty"}

\* "if current_price:" of line 121
PriceTruthy(p) == p # None /\ p[1] # 0

\* a row of the merged frame; a missing value (NaN) is None, a value v is
\* Some(v).  mvrv_zscore is in tenths.  The columns lth_supply and netflow
\* and the derived columns of lines 134-136 are not modelled.
Row(date, mvrv, realized, mkt) ==
    [date |-> date, mvrv_zscore |-> mvrv, realized_price |-> realized,
     mkt_price |-> mkt]

\* df.merge(btc, on='date', how='left'): every row of the left frame, once
\* for each row of the CSV with its date, or once with NaN when there is none
RECURSIVE LeftMerge(_, _)
LeftMerge(left, right) ==
    IF left = <<>> THEN <<>>
    ELSE LET row  == Head(left)
             hits == SelectSeq(right, LAMBDA p : p.date = row.date)
         IN  (IF hits = <<>>
              THEN << row >>
              ELSE [k \in DOMAIN hits |->
                       [row EXCEPT !.mkt_price = Some(hits[k].mkt_price)]])
             \o LeftMerge(Tail(left), right)

\* sort_values('date') of a frame: the rows by ascending date, rows of one
\* date in the order they had
RECURSIVE SortByDate(_)
SortByDate(rows) ==
    IF rows = <<>> THEN <<>>
    ELSE LET first == CHOOSE k \in DOMAIN rows :
                          /\ \A j \in DOMAIN rows : rows[k].date <= rows[j].date
                          /\ \A j \in 1..(k - 1) : rows[j].date # rows[k].date
         IN  << rows[first] >>
             \o SortByDate([j \in 1..(Len(rows) - 1) |->
                               IF j < first THEN rows[j] ELSE rows[j + 1]])

\* lines 121-128: a truthy current_price overwrites mkt_price in the rows
\* dated today, or is appended as a new row and the frame sorted again
Inject(rows, price, today) ==
    IF ~PriceTruthy(price) THEN rows
    ELSE IF \E k \in DOMAIN rows : rows[k].date = today
    THEN [k \in DOMAIN rows |->
             IF rows[k].date = today
             THEN [rows[k] EXCEPT !.mkt_price = Some(price[1])] ELSE rows[k]]
    ELSE SortByDate(Append(rows, Row(today, None, None, Some(price[1]))))

\* df = df[df['date'] >= '2017-01-01']
FromStart(rows) == SelectSeq(rows, LAMBDA r : r.date >= DASH_START)

\* what the four JSON files hold, merged on date and sorted (lines 81-108):
\* one row a day; a day before 2017 and a day after today occur
MetricTables ==
    { << Row(0, Some(-1), Some(10), None), Row(2, Some(36), Some(10), None),
         Row(3, Some(37), Some(10), None) >>,
      << Row(1, Some(70), Some(10), None), Row(2, None, None, None),
         Row(5, Some(0), Some(10), None) >> }

\* what btc-usd-max.csv holds, as rows [date, mkt_price] in file order: one
\* snapshot a day, or a second snapshot on the last day
CsvTables ==
    { << [date |-> 1, mkt_price |-> 5], [date |-> 2, mkt_price |-> 20] >>,
      << [date |-> 2, mkt_price |-> 5], [date |-> 3, mkt_price |-> 20],
         [date |-> 3, mkt_price |-> 5] >> }

\* datetime.utcnow().date() at the time of the call
DashToday == {3, 4}

\* load_data(current_price): the four files are read in the order of the
\* list; mkt_price comes from the CSV when it exists and is NaN otherwise;
\* a truthy current_price is put in as today's row.  The frame is kept with
\* the day it was loaded on and the rows it had before line 121.
LoadData ==
    /\ script = "dashboard"
    /\ pc = "load"
    /\ IF \E k \in 1..NUM_ENDPOINTS : Unreadable(k)
       THEN LET k == CHOOSE j \in 1..NUM_ENDPOINTS :
                        /\ Unreadable(j)
                        /\ \A h \in 1..(j - 1) : ~Unreadable(h)
            IN  /\ console' = console \o
                      << <<k, IF files[k] = "absent" THEN "FileNotFoundError"
                                                     ELSE "JSONDecodeError">> >>
                /\ pc' = "crashed"
                /\ merged' = merged
       ELSE /\ \E metrics \in MetricTables, today \in DashToday,
                  prices \in IF csv THEN CsvTables ELSE {<<>>} :
                   LET base == LeftMerge(metrics, prices)
                   IN  merged' = Some([rows  |-> FromStart(Inject(base, current_price, today)),
                                       today |-> today,
                                       base  |-> base])
            /\ console' = console \o << <<0, "rows">> >>
            /\ pc' = "build"
    /\ UNCHANGED <<script, i, saved, files, csv, current_price, fig>>
    /\ UNCHANGED batchVars

\* df.dropna(subset=[column]) is not empty
HasValue(rows, column) == \E k \in DOMAIN rows : rows[k][column] # None

\* mvrv_zone(v): the label and the colour of the stat card
MvrvZone(v) ==
    IF v < 0 THEN <<"EXTREME FEAR", "#00ff88">>
    ELSE IF v < MVRV_FAIR_TOP THEN <<"FAIR VALUE", "#ffd700">>
    ELSE IF v < MVRV_SELL THEN <<"CAUTION", "#ff8c00">>
    ELSE <<"SELL ZONE", "#ff4444">>

\* zone_defs with 3.7 counted to the zone below it: <= 3.7 and > 3.7.
ZoneDefsUpperInclusive(v) ==
    << <<"#00ff88", v < 0>>,
       <<"#ffd700", v >= 0 /\ v <= MVRV_FAIR_TOP>>,
       <<"#ff8c00", v > MVRV_FAIR_TOP /\ v < MVRV_SELL>>,
       <<"#ff4444", v >= MVRV_SELL>> >>

\* zone_defs: the colour of each of the four line traces and whether its
\* mask selects a row with the value v
ZoneDefs(v) ==
    << <<"#00ff88", v < 0>>,
       <<"#ffd700", v >= 0 /\ v < MVRV_FAIR_TOP>>,
       <<"#ff8c00", v >= MVRV_FAIR_TOP /\ v < MVRV_SELL>>,
       <<"#ff4444", v >= MVRV_SELL>> >>

\* the colours of the traces whose y is not NaN at a row with the value v
LineColours(v) == {ZoneDefs(v)[z][1] : z \in {z \in 1..4 : ZoneDefs(v)[z][2]}}

\* above_vals: mkt_price >= realized_price
Above(row) == row.mkt_price[1] >= row.realized_price[1]

\* lines 245-254: the state of the loop before the pass for index idx
\* (counted from 0 as in the code), and the append after the loop
RECURSIVE SegmentLoop(_, _, _, _, _)
SegmentLoop(price_df, idx, seg_start, cur_above, segments) ==
    IF idx >= Len(price_df)
    THEN Append(segments,
                [rows |-> SubSeq(price_df, seg_start + 1, Len(price_df)),
                 is_above |-> cur_above])
    ELSE IF Above(price_df[idx + 1]) # cur_above
    THEN SegmentLoop(price_df, idx + 1, idx, Above(price_df[idx + 1]),
                     Append(segments,
                            [rows |-> SubSeq(price_df, seg_start + 1, idx),
                             is_above |-> cur_above]))
    ELSE SegmentLoop(price_df, idx + 1, seg_start, cur_above, segments)

\* the segments without the append of line 254: the last run is lost.
SegmentsWithoutLast(price_df) ==
    LET all == SegmentLoop(price_df, 1, 0, Above(price_df[1]), <<>>)
    IN  SubSeq(all, 1, Len(all) - 1)

\* segments of lines 243-254, for a price_df of more than one row
Segments(price_df) == SegmentLoop(price_df, 1, 0, Above(price_df[1]), <<>>)

\* what lines 147-275 put in the figure: the colour of the MVRV stat card,
\* the line colours at each row of mvrv_df, the segments and those of them
\* that are filled
Figure(rows) ==
    LET mvrv_df  == SelectSeq(rows, LAMBDA r : r.mvrv_zscore # None)
        current_mvrv == mvrv_df[Len(mvrv_df)].mvrv_zscore[1]
        price_df == SelectSeq(rows, LAMBDA r : r.mkt_price # None
                                               /\ r.realized_price # None)
        segments == IF Len(price_df) > 1 THEN Segments(price_df) ELSE <<>>
    IN  [current_mvrv |-> current_mvrv,
         zone_color   |-> MvrvZone(current_mvrv)[2],
         mvrv_df      |-> mvrv_df,
         lines        |-> [k \in DOMAIN mvrv_df |->
                              LineColours(mvrv_df[k].mvrv_zscore[1])],
         price_df     |-> price_df,
         segments     |-> segments,
         fills        |-> SelectSeq(segments, LAMBDA seg : ~(Len(seg.rows) < 2))]

\* a main block that opens the output file before it calls
\* build_dashboard(df): the file is there, empty, when the build fails.
BuildDashboardWritesFirst ==
    /\ script = "dashboard"
    /\ pc = "build"
    /\ saved' = TRUE
    /\ IF /\ HasValue(merged[1].rows, "mvrv_zscore")
          /\ HasValue(merged[1].rows, "mkt_price")
          /\ HasValue(merged[1].rows, "realized_price")
       THEN /\ fig' = Some(Figure(merged[1].rows))
            /\ pc' = "write"
            /\ console' = console
       ELSE /\ pc' = "crashed"
            /\ console' = console \o << <<0, "IndexError">> >>
            /\ fig' = fig
    /\ UNCHANGED <<script, i, files, csv, current_price, merged>>
    /\ UNCHANGED batchVars

\* build_dashboard(df): df.dropna(subset=[column]).iloc[-1] raises
\* IndexError when no row has a value in the column
BuildDashboard ==
    /\ script = "dashboard"
    /\ pc = "build"
    /\ IF /\ HasValue(merged[1].rows, "mvrv_zscore")
          /\ HasValue(merged[1].rows, "mkt_price")
          /\ HasValue(merged[1].rows, "realized_price")
       THEN /\ fig' = Some(Figure(merged[1].rows))
            /\ pc' = "write"
            /\ console' = console
       ELSE /\ pc' = "crashed"
            /\ console' = console \o << <<0, "IndexError">> >>
            /\ fig' = fig
    /\ UNCHANGED <<script, i, saved, files, csv, current_price, merged>>
    /\ UNCHANGED batchVars

\* lines 560-565: the HTML file is written, setup_cron() prints
WriteDashboard ==
    /\ script = "dashboard"
    /\ pc = "write"
    /\ saved' = TRUE
    /\ console' = console \o << <<0, "Dashboard saved">>, <<0, "crontab">> >>
    /\ pc' = "done"
    /\ UNCHANGED <<script, i, files, csv, current_price, merged, fig>>
    /\ UNCHANGED batchVars

InitDashboard ==
    /\ script = "dashboard"
    /\ files \in [1..NUM_ENDPOINTS -> {"absent", "cached"}]
    /\ csv \in BOOLEAN
    /\ current_price = None
    /\ merged = None
    /\ fig = None
    /\ pc = "fetch"
    /\ btc = <<>>
    /\ cycles = <<>>
    /\ df = <<>>
    /\ phases = <<>>

InitStocks ==
    /\ script = "stocks"
    /\ df \in StockFrames
    /\ phases \in PhaseTables
    /\ btc = <<>>
    /\ cycles = <<>>
    /\ files = <<>>
    /\ csv = FALSE
    /\ current_price = None
    /\ merged = None
    /\ fig = None
    /\ pc = "loop"

InitBtc ==
    /\ script = "btc"
    /\ btc \in BtcTables
    /\ cycles \in CycleTables
    /\ df = <<>>
    /\ phases = <<>>
    /\ files = <<>>
    /\ csv = TRUE
    /\ current_price = None
    /\ merged = None
    /\ fig = None
    /\ pc = "loop"

Init ==
    /\ InitBtc \/ InitStocks \/ InitDashboard
    /\ i = 0
    /\ results = <<>>
    /\ console = <<>>
    /\ saved = FALSE

Next ==
    \/ BtcCycle
    \/ BtcSave
    \/ StockPhase
    \/ StockSave
    \/ Fetch
    \/ FetchPrice
    \/ LoadData
    \/ BuildDashboard
    \/ WriteDashboard

Spec == Init /\ [][Next]_vars

(***************************************************************************)
(* build_dashboard(df) on its own: the frame it is called with is drawn    *)
(* from the frames below, and the main block goes on from line 558.        *)
(***************************************************************************)
\* a frame of n rows, one a day from DASH_START on, with the given columns
FrameOf(n, mvrv, realized, mkt) ==
    [k \in 1..n |-> Row(DASH_START + k - 1, mvrv[k], realized[k], mkt[k])]

\* market prices below, at and above a realized price of 10, or missing
PriceFrames ==
    {FrameOf(Len(mkt), [k \in DOMAIN mkt |-> Some(36)],
             [k \in DOMAIN mkt |-> Some(10)], mkt) :
        mkt \in UNION {[1..n -> {None, Some(5), Some(10), Some(20)}] :
                          n \in 0..MaxRows}}

\* MVRV values below, at and above the bounds of the zones, or missing
MvrvFrames ==
    {FrameOf(Len(mvrv), mvrv, [k \in DOMAIN mvrv |-> Some(10)],
             [k \in DOMAIN mvrv |-> Some(20)]) :
        mvrv \in UNION {[1..n -> {None, Some(-1), Some(0), Some(36), Some(37), Some(70)}] :
                           n \in 0..MaxRows}}

InitFigure ==
    /\ script = "dashboard"
    /\ pc = "build"
    /\ \E rows \in PriceFrames \cup MvrvFrames :
          merged = Some([rows |-> rows, today |-> DASH_START, base |-> rows])
    /\ fig = None
    /\ files = [k \in 1..NUM_ENDPOINTS |-> "fresh"]
    /\ csv = TRUE
    /\ current_price = None
    /\ i = NUM_ENDPOINTS
    /\ console = <<>>
    /\ saved = FALSE
    /\ results = <<>>
    /\ btc = <<>>
    /\ cycles = <<>>
    /\ df = <<>>
    /\ phases = <<>>

NextFigure ==
    \/ BuildDashboard
    \/ WriteDashboard

SpecFigure == InitFigure /\ [][NextFigure]_vars

(***************************************************************************)
(* What the properties below read from a result r of the run's script.     *)
(***************************************************************************)
Off(row) == IF script = "btc" THEN row.days ELSE row.td

Val(row) == IF script = "btc" THEN row.btc_price ELSE row.price

EarlyBound == IF script = "btc" THEN ACCUM_DAYS ELSE ACCUM_TD

\* the second anchor of the n-th result: the cycle top's offset, or day 200
Anchor2(n) ==
    IF script = "btc" THEN cycles[n].top - cycles[n].halving ELSE ACCUM_TD

\* the reference price of the n-th result (a btc run handles the cycles in
\* table order and stops at the first it cannot handle)
Ref(n) ==
    IF script = "btc" THEN cycles[n].top_price ELSE Val(results[n].chunk[1])

LowOff(r) == IF script = "btc" THEN r.low_day ELSE r.low_td

LatePct(r) == IF script = "btc" THEN r.bear_low_pct ELSE r.after_low

LateOff(r) == IF script = "btc" THEN r.bear_low_day ELSE r.after_low_td

EarlyRows(r) == {k \in DOMAIN r.chunk : Off(r.chunk[k]) <= EarlyBound}

LateRows(r, n) == {k \in DOMAIN r.chunk : Off(r.chunk[k]) > Anchor2(n)}

EarlyVals(r) == {r.chunk[k].pct : k \in EarlyRows(r)}

LateVals(r, n) == {r.chunk[k].pct : k \in LateRows(r, n)}

PctLE(a, b) == ~IsNaN(a) /\ ~IsNaN(b) /\ ~PctLT(b, a)

\* the minimum of a set of percents: its members that are <= every member
Least(vals) == {v \in vals : \A w \in vals : PctLE(v, w)}

\* p is the number q (an integer)
PctIs(p, q) == p.den # 0 /\ p.num = q * p.den

(***************************************************************************)
(* C1: in both scripts, whenever the late window holds a point, the        *)
(* support verdict is a boolean and is true exactly when the minimum       *)
(* percent of the late window is strictly greater than the minimum percent *)
(* of the early window; with equal minima it is false.                     *)
(***************************************************************************)
C1_VerdictIsStrictComparison ==
    \A n \in DOMAIN results :
        LET r == results[n]
        IN  LateRows(r, n) # {} =>
                /\ r.held \in {Some(TRUE), Some(FALSE)}
                /\ r.held = Some(TRUE) <=>
                       \E l \in Least(LateVals(r, n)), e \in Least(EarlyVals(r)) :
                           PctLT(e, l)

\* a verdict of false on equal minima, in a btc run and likewise in a stocks run
C1_Witness ==
    \E n \in DOMAIN results :
        LET r == results[n]
        IN  /\ \E l \in Least(LateVals(r, n)), e \in Least(EarlyVals(r)) : PctEQ(e, l)
            /\ r.held = Some(FALSE)

(***************************************************************************)
(* C2: in both scripts, when no retained point lies beyond the second      *)
(* anchor, the late extremum is absent and the verdict is None, not false. *)
(***************************************************************************)
C2_EmptyLateWindowGivesNone ==
    \A n \in DOMAIN results :
        LET r == results[n]
        IN  LateRows(r, n) = {} =>
                /\ LatePct(r) = None
                /\ LateOff(r) = None
                /\ r.held = None

C2_Witness ==
    \E n \in DOMAIN results :
        /\ LateRows(results[n], n) = {}
        /\ Len(results[n].chunk) > 1
        /\ results[n].held = None

(***************************************************************************)
(* C3: for every series whose retained points have a unique smallest value *)
(* at an offset k in [0, W], the reported early extremum has offset k and  *)
(* its percent is <= the percent of every retained point of the window.    *)
(***************************************************************************)
\* the rows of r's chunk that hold its smallest value
SmallestRows(r) ==
    LET vals == {Val(r.chunk[k]) : k \in DOMAIN r.chunk}
        vmin == CHOOSE v \in vals : \A w \in vals : v <= w
    IN  {k \in DOMAIN r.chunk : Val(r.chunk[k]) = vmin}

EarlyExtremumAt(r, n) ==
    \A k \in SmallestRows(r) :
        (Cardinality(SmallestRows(r)) = 1 /\ Off(r.chunk[k]) <= EarlyBound) =>
            /\ LowOff(r) = Off(r.chunk[k])
            /\ \A j \in EarlyRows(r) : PctLE(r.low_pct, r.chunk[j].pct)

\* C3: the early extremum sits on the unique smallest value of the series
C3_EarlyExtremumAtUniqueMinimum ==
    \A n \in DOMAIN results : EarlyExtremumAt(results[n], n)

\* C3 read for the results whose reference price is positive only
C3_WithPositiveReference ==
    \A n \in DOMAIN results : Ref(n) > 0 => EarlyExtremumAt(results[n], n)

(***************************************************************************)
(* C4: when several retained points of the early window share its minimum  *)
(* percent, the reported early extremum is the one of them with the        *)
(* smallest offset.                                                        *)
(***************************************************************************)
C4_TieGoesToFirstOffset ==
    \A n \in DOMAIN results :
        LET r     == results[n]
            least == Least(EarlyVals(r))
            ties  == {k \in EarlyRows(r) : \E v \in least : PctEQ(r.chunk[k].pct, v)}
        IN  least # {} =>
                /\ \E k \in ties : Off(r.chunk[k]) = LowOff(r)
                /\ \A k \in ties : LowOff(r) <= Off(r.chunk[k])
                /\ \E v \in least : PctEQ(r.low_pct, v)

\* two points of the early window at different offsets share the minimum
C4_Witness ==
    \E n \in DOMAIN results :
        LET r     == results[n]
            least == Least(EarlyVals(r))
        IN  \E k \in EarlyRows(r) :
                /\ \E v \in least : PctEQ(r.chunk[k].pct, v)
                /\ LowOff(r) < Off(r.chunk[k])

(***************************************************************************)
(* C5: a reported late extremum lies strictly beyond the second anchor, on *)
(* a retained point; its percent is the percent of a retained point beyond *)
(* the anchor, and no retained point beyond the anchor has a lower one.    *)
(***************************************************************************)
C5_LateExtremumIsMinimumBeyondAnchor ==
    \A n \in DOMAIN results :
        LET r == results[n]
        IN  LatePct(r) # None =>
                /\ LateOff(r) # None
                /\ LateOff(r)[1] > Anchor2(n)
                /\ \E k \in LateRows(r, n) : Off(r.chunk[k]) = LateOff(r)[1]
                /\ \E k \in LateRows(r, n) : PctEQ(r.chunk[k].pct, LatePct(r)[1])
                /\ \A k \in LateRows(r, n) : ~PctLT(r.chunk[k].pct, LatePct(r)[1])

\* a point on the anchor's own offset is lower than the reported late extremum
C5_Witness ==
    \E n \in DOMAIN results :
        LET r == results[n]
        IN  /\ LatePct(r) # None
            /\ \E k \in DOMAIN r.chunk :
                   /\ Off(r.chunk[k]) = Anchor2(n)
                   /\ PctLT(r.chunk[k].pct, LatePct(r)[1])

(***************************************************************************)
(* C6: the series (0,100) (50,40) (200,60) (400,90) (800,30), retained in  *)
(* full from anchor day 0 with reference price 100, early window 200 and   *)
(* late window beyond offset 200, gives the early extremum (day 50, -60),  *)
(* the late extremum (day 800, -70) and a verdict of false.                *)
(***************************************************************************)
\* the n-th result is that of the example, ending in the price last
IsScenario(n, last) ==
    /\ script = "btc"
    /\ cycles[n].halving = 0
    /\ cycles[n].top_price = 100
    /\ Anchor2(n) = 200
    /\ [k \in DOMAIN results[n].chunk |->
           <<results[n].chunk[k].date, results[n].chunk[k].btc_price>>]
       = [k \in 1..5 |-> <<Scenario(last)[k].date, Scenario(last)[k].btc_price>>]

\* C6: the example series gives (50, -60), (800, -70) and held = False
C6_ScenarioSupportBroken ==
    \A n \in DOMAIN results :
        IsScenario(n, 30) =>
            /\ results[n].low_day = 50
            /\ PctIs(results[n].low_pct, -60)
            /\ results[n].bear_low_day = Some(800)
            /\ results[n].bear_low_pct # None
            /\ PctIs(results[n].bear_low_pct[1], -70)
            /\ results[n].held = Some(FALSE)

C6_Witness == \E n \in DOMAIN results : IsScenario(n, 30)

(***************************************************************************)
(* C7: the same series with the last point (800,70) gives a late extremum  *)
(* of -30 percent (the -10 of day 400 is not lower) and a verdict of true. *)
(***************************************************************************)
C7_ScenarioSupportHeld ==
    \A n \in DOMAIN results :
        IsScenario(n, 70) =>
            /\ results[n].bear_low_pct # None
            /\ PctIs(results[n].bear_low_pct[1], -30)
            /\ results[n].bear_low_day = Some(800)
            /\ results[n].held = Some(TRUE)

C7_Witness == \E n \in DOMAIN results : IsScenario(n, 70)

(***************************************************************************)
(* C8: within one cycle or phase every point's percent is computed against *)
(* the same reference price: the cycle's top_price (btc), the price of the *)
(* first retained point (stocks).                                          *)
(***************************************************************************)
C8_OneReferencePerSeries ==
    \A n \in DOMAIN results :
        \A k \in DOMAIN results[n].chunk :
            LET row == results[n].chunk[k]
            IN  /\ row.pct.den = Ref(n)
                /\ row.pct.num = (Val(row) - Ref(n)) * 100

\* two series with different references, points with different values in each
C8_Witness ==
    /\ Len(results) = 2
    /\ Ref(1) # Ref(2)
    /\ \A n \in 1..2 :
           \E j, k \in DOMAIN results[n].chunk :
               j < k /\ Val(results[n].chunk[j]) # Val(results[n].chunk[k])

(***************************************************************************)
(* C9: for a positive reference price, a retained point whose value equals *)
(* the reference price has percent exactly 0.                              *)
(***************************************************************************)
C9_ZeroPercentAtReference ==
    \A n \in DOMAIN results :
        \A k \in DOMAIN results[n].chunk :
            (Ref(n) > 0 /\ Val(results[n].chunk[k]) = Ref(n)) =>
                PctIs(results[n].chunk[k].pct, 0)

\* a point after the first of a series has the reference price as its value
C9_Witness ==
    \E n \in DOMAIN results :
        \E k \in DOMAIN results[n].chunk :
            k > 1 /\ Ref(n) > 0 /\ Val(results[n].chunk[k]) = Ref(n)

(***************************************************************************)
(* C10: with a reference price that is zero or negative the normalisation  *)
(* fails fast: no cycle or phase with such a reference price gets as far   *)
(* as an extremum and a verdict.                                           *)
(***************************************************************************)
C10_NonPositiveReferenceFailsFast ==
    \A n \in DOMAIN results : Ref(n) > 0

(***************************************************************************)
(* C11: a cycle or phase whose sliced series is empty, or whose early      *)
(* window holds no point, ends the run with an error: the loop never       *)
(* passes such a cycle or phase, neither by skipping it nor with an        *)
(* extremum or a verdict for it.                                           *)
(***************************************************************************)
\* the early window of the n-th cycle or phase of the table
EarlyWindow(n) ==
    IF script = "btc"
    THEN BtcAccum(BtcChunk(cycles[n]))
    ELSE LET kept == StockSlice(phases[n])
         IN  SubSeq(kept, 1, Min2(Len(kept), ACCUM_TD + 1))

\* C11: every cycle or phase the loop has passed had a point in its early window
C11_EmptyWindowFails ==
    script \in {"btc", "stocks"} =>
        \A n \in 1..i : Len(EarlyWindow(n)) > 0

(***************************************************************************)
(* C12: the btc script retains for a cycle exactly the rows of the price   *)
(* table dated from the halving to the halving + 1100 days, both           *)
(* inclusive; for a cycle that is not confirmed the upper end is TODAY     *)
(* when TODAY comes first, for a confirmed cycle it is never cut at TODAY. *)
(***************************************************************************)
\* the last date the n-th cycle retains, as the claim words it
RetainedUpTo(n) ==
    IF ~cycles[n].confirmed /\ TODAY < cycles[n].halving + 1100
    THEN TODAY
    ELSE cycles[n].halving + 1100

\* the rows of the table from the halving of the n-th cycle to that date
RetainedRows(n) ==
    SelectSeq(btc, LAMBDA row : /\ cycles[n].halving <= row.date
                                /\ row.date <= RetainedUpTo(n))

\* C12: the chunk of each cycle is those rows, in table order
C12_RetainedSpan ==
    script = "btc" =>
        \A n \in DOMAIN results :
            /\ Len(results[n].chunk) = Len(RetainedRows(n))
            /\ \A k \in DOMAIN results[n].chunk :
                   /\ results[n].chunk[k].date = RetainedRows(n)[k].date
                   /\ results[n].chunk[k].btc_price = RetainedRows(n)[k].btc_price

\* a confirmed cycle that keeps a row dated after TODAY and drops the rows
\* before its halving and after its last day, then an open cycle that
\* keeps the row of TODAY and drops the row of the next day
C12_Witness ==
    /\ script = "btc"
    /\ Len(results) = 2
    /\ cycles[1].confirmed /\ ~cycles[2].confirmed
    /\ \E k \in DOMAIN results[1].chunk : results[1].chunk[k].date > TODAY
    /\ \E k \in DOMAIN btc : btc[k].date < cycles[1].halving
    /\ \E k \in DOMAIN btc : btc[k].date = cycles[1].halving + 1100 + 1
    /\ \E k \in DOMAIN results[1].chunk :
           results[1].chunk[k].date = cycles[1].halving + 1100
    /\ \E k \in DOMAIN results[2].chunk : results[2].chunk[k].date = TODAY
    /\ \E k \in DOMAIN btc : btc[k].date = TODAY + 1

(***************************************************************************)
(* C13: in fetch_data() a failing metric endpoint is caught and logged and *)
(* does not stop the run: the four endpoints are attempted once each in    *)
(* the order of the list, a sleep follows every attempt, failed or not,    *)
(* the price request comes after them, and fetch_data() returns whatever   *)
(* endpoints failed.                                                       *)
(***************************************************************************)
\* the console holds the attempt on endpoint k and the sleep after it
Attempted(k) ==
    /\ console[2 * k - 1] \in {<<k, "ok">>, <<k, "failed">>}
    /\ console[2 * k] = <<k, "sleep">>

\* C13: attempts in list order, each logged, the run only ends after the return
C13_FetchFailureIsCaught ==
    script = "dashboard" =>
        /\ pc = "fetch" =>
              /\ Len(console) = 2 * i
              /\ \A k \in 1..i : Attempted(k)
              /\ ENABLED Fetch \/ ENABLED FetchPrice
        /\ pc # "fetch" =>
              /\ i = NUM_ENDPOINTS
              /\ Len(console) > 2 * NUM_ENDPOINTS
              /\ \A k \in 1..NUM_ENDPOINTS : Attempted(k)
              /\ console[2 * NUM_ENDPOINTS + 1]
                     \in {<<0, "CoinGecko ok">>, <<0, "CoinGecko failed">>}
              /\ current_price = None <=>
                     console[2 * NUM_ENDPOINTS + 1] = <<0, "CoinGecko failed">>

\* fetch_data() has returned after all four endpoints and the price request
\* failed, one of them while its file was open for writing
C13_Witness ==
    /\ script = "dashboard"
    /\ pc = "load"
    /\ \A k \in 1..NUM_ENDPOINTS : console[2 * k - 1] = <<k, "failed">>
    /\ current_price = None
    /\ \E k \in 1..NUM_ENDPOINTS : files[k] = "empty"
    /\ \E k \in 1..NUM_ENDPOINTS : files[k] = "cached"

(***************************************************************************)
(* C14: when the fetch of an endpoint fails, at the request, at the status *)
(* check, at the decoding of the response body or at the write, the file   *)
(* cached by an earlier run still has its content afterwards.              *)
(***************************************************************************)
\* the pass over endpoint k ended in the except branch
FetchFailed(k) ==
    /\ script = "dashboard"
    /\ pc = "fetch"
    /\ i = k - 1
    /\ console' = console \o << <<k, "failed">>, <<k, "sleep">> >>

\* C14: a failed pass leaves a cached file as it was; no later step of the
\* run writes it
C14_FailedFetchKeepsCache ==
    [][ \A k \in 1..NUM_ENDPOINTS :
            /\ (FetchFailed(k) /\ files[k] = "cached") => files'[k] = "cached"
            /\ (script = "dashboard" /\ i >= k) => files'[k] = files[k] ]_vars

(***************************************************************************)
(* C15: when the fetch of an endpoint fails and no file of it is on disk,  *)
(* the run goes on: load_data() and build_dashboard() complete and the     *)
(* dashboard is written without that metric's column; the run does not end *)
(* on the missing file.                                                    *)
(***************************************************************************)
\* the fetch of endpoint k failed and left no file
FailedWithoutFile(k) ==
    /\ Len(console) >= 2 * k
    /\ console[2 * k - 1] = <<k, "failed">>
    /\ files[k] = "absent"

\* C15: no run ends in load_data() on the missing file of a failed fetch
C15_MissingFileDoesNotStopRun ==
    script = "dashboard" =>
        \A k \in 1..NUM_ENDPOINTS :
            FailedWithoutFile(k) =>
                ~(pc = "crashed" /\ console[Len(console)] = <<k, "FileNotFoundError">>)

(***************************************************************************)
(* C16: apart from a failed fetch of a metric endpoint, every failure ends *)
(* the run with an error and without an output file: a missing price CSV   *)
(* or metric JSON, an empty series.  No script goes on with a partial      *)
(* result: the dashboard is not built on an empty price column, no cycle   *)
(* or phase is passed without a result.                                    *)
(***************************************************************************)
C16_OtherFailuresAreFatal ==
    /\ script = "dashboard" =>
          /\ pc \in {"build", "write", "done"} =>
                /\ csv
                /\ \A k \in 1..NUM_ENDPOINTS : ~Unreadable(k)
          /\ saved => csv
    /\ script \in {"btc", "stocks"} =>
          /\ Len(results) = i
          /\ saved => Len(results) = Len(IF script = "btc" THEN cycles ELSE phases)

(***************************************************************************)
(* C17: a cycle or phase without late-window data has an absent verdict    *)
(* and is reported so: the console states that the verdict is undefined,   *)
(* and no YES/NO line, no Held/Broken status and no badge is produced for  *)
(* it; a YES/NO verdict is only output when a late extremum exists.        *)
(***************************************************************************)
\* the phase is not skipped as too short
Analysed(n) == Len(StockSlice(phases[n])) >= MIN_ROWS

\* the number under which the console lines of the k-th result are printed:
\* the cycle's place in CYCLES, the phase's place in the list of phases
TagOf(k) ==
    IF script = "btc" THEN k
    ELSE CHOOSE n \in DOMAIN phases :
             /\ Analysed(n)
             /\ Cardinality({m \in 1..n : Analysed(m)}) = k

\* the texts printed under the number n
Block(n) == {console[j][2] : j \in {j \in DOMAIN console : console[j][1] = n}}

\* the lines either script prints for a cycle or phase whatever its verdict
PlainLines ==
    {"name", "Accumulation low", "", "label", "Bottom date", "200d accum low"}

VerdictLines == {"Support held: YES", "Support held: NO"}

\* C17, as stated: with an empty late window the block holds a line beyond
\* the plain ones that is not a YES/NO line (the statement that the verdict
\* is undefined), and no badge is drawn
C17_AbsentVerdictIsStated ==
    script \in {"btc", "stocks"} =>
        \A k \in DOMAIN results :
            LateRows(results[k], k) = {} =>
                /\ Block(TagOf(k)) \ PlainLines # {}
                /\ Block(TagOf(k)) \cap VerdictLines = {}
                /\ results[k].badge = None

\* C17, amended: with an empty late window the block holds the plain lines
\* only and no badge is drawn; a YES/NO line or a badge implies a late
\* extremum
C17_AbsentVerdictIsOmitted ==
    script \in {"btc", "stocks"} =>
        \A k \in DOMAIN results :
            /\ LateRows(results[k], k) = {} =>
                  /\ Block(TagOf(k)) # {}
                  /\ Block(TagOf(k)) \subseteq PlainLines
                  /\ results[k].badge = None
            /\ (Block(TagOf(k)) \cap VerdictLines # {} \/ results[k].badge # None) =>
                  /\ LateRows(results[k], k) # {}
                  /\ LatePct(results[k]) # None
                  /\ results[k].held \in {Some(TRUE), Some(FALSE)}

\* a run that printed a verdict for one cycle or phase and none for another,
\* whose late window is empty
C17_Witness ==
    \E j, k \in DOMAIN results :
        /\ LateRows(results[j], j) = {}
        /\ Block(TagOf(j)) # {}
        /\ Block(TagOf(k)) \cap VerdictLines # {}
        /\ results[k].badge # None

(***************************************************************************)
(* C19: the price series the btc script computes on is in ascending date   *)
(* order and no two of its rows share a date, whatever the CSV held        *)
(* (several snapshots of one calendar day included).                       *)
(***************************************************************************)
C19_AscendingUniqueDates ==
    script = "btc" =>
        \A n \in DOMAIN results :
            \A j, k \in DOMAIN results[n].chunk :
                j < k => results[n].chunk[j].date < results[n].chunk[k].date

(***************************************************************************)
(* C20: in the stocks script every offset used in a comparison is a        *)
(* trading-day ordinal: the retained rows of a phase are numbered 0, 1,    *)
(* ..., n-1 in date order whatever the calendar gaps, the early and the    *)
(* late window are selected by that number, and no bound of the analysis   *)
(* applies a count of trading days as a number of calendar days.           *)
(***************************************************************************)
\* the rows of the frame from the bottom date of phase n up to TODAY
Available(n) ==
    SelectSeq(df, LAMBDA row : phases[n] <= row.date /\ row.date <= STOCK_TODAY)

\* the k-th result numbers its rows 0..n-1 in date order
OrdinalOffsets(k) ==
    LET avail == Available(TagOf(k))
    IN  \A j \in DOMAIN results[k].chunk :
            /\ results[k].chunk[j].td = j - 1
            /\ results[k].chunk[j].date = avail[j].date

\* both extrema are picked by ordinal
WindowsByOrdinal(k) ==
    /\ results[k].low_td <= ACCUM_TD
    /\ results[k].after_low_td # None => results[k].after_low_td[1] > ACCUM_TD

\* the span of a phase ends with the data, at TODAY, or after a number of
\* trading days given by PLOT_DAYS, the same whatever the calendar gaps
SpanByOrdinal(k) ==
    Len(results[k].chunk) \in
        {Len(Available(TagOf(k))), STOCK_PLOT_DAYS + 1, STOCK_PLOT_DAYS * 2 + 1}

\* C20: ordinals as offsets, windows by ordinal, the span counted in trading days
C20_TradingDayOrdinalsOnly ==
    script = "stocks" =>
        \A k \in DOMAIN results :
            OrdinalOffsets(k) /\ WindowsByOrdinal(k) /\ SpanByOrdinal(k)

\* C20 without its last clause: the offsets and the two windows
C20_OffsetsAndWindows ==
    script = "stocks" =>
        \A k \in DOMAIN results : OrdinalOffsets(k) /\ WindowsByOrdinal(k)

(***************************************************************************)
(* C22: fetch_data() returns the price of the CoinGecko answer when the    *)
(* price request succeeds and None when it fails, however many of the      *)
(* metric endpoints succeeded or failed.                                   *)
(***************************************************************************)
\* the line the price request printed, once fetch_data() has returned
PriceLine == console[2 * NUM_ENDPOINTS + 1]

\* the endpoints whose attempt ended in the except branch
FailedEndpoints ==
    {k \in 1..NUM_ENDPOINTS : console[2 * k - 1] = <<k, "failed">>}

\* C22: a price exactly when the price request succeeded
C22_ReturnsPriceOrNone ==
    (script = "dashboard" /\ pc # "fetch") =>
        /\ PriceLine = <<0, "CoinGecko ok">> =>
              current_price # None /\ current_price[1] \in DashPrices
        /\ PriceLine = <<0, "CoinGecko failed">> => current_price = None

\* a price is returned after all four metric endpoints failed
C22_Witness ==
    /\ script = "dashboard"
    /\ pc = "load"
    /\ FailedEndpoints = 1..NUM_ENDPOINTS
    /\ PriceLine = <<0, "CoinGecko ok">>
    /\ current_price = Some(50000)

(***************************************************************************)
(* C23: in the btc script, every cycle whose post-top window holds a point *)
(* has its bear-market-low line and its 'Support held' line on the         *)
(* console, whatever the late minimum percent is, a minimum of exactly 0   *)
(* included.                                                               *)
(***************************************************************************)
C23_VerdictLinePrinted ==
    script = "btc" =>
        \A n \in DOMAIN results :
            LateRows(results[n], n) # {} =>
                /\ "Bear market low" \in Block(n)
                /\ Block(n) \cap VerdictLines # {}

\* C23 for the late minima that are not 0 (NaN counts as not 0)
C23_PrintedUnlessZero ==
    script = "btc" =>
        \A n \in DOMAIN results :
            (LateRows(results[n], n) # {} /\ ~PctIs(results[n].bear_low_pct[1], 0)) =>
                /\ "Bear market low" \in Block(n)
                /\ Block(n) \cap VerdictLines # {}

(***************************************************************************)
(* C27: in the stocks script, for every analysed phase the point at offset *)
(* 0 has percent exactly 0 and lies in the early window, so the early      *)
(* window is never empty and the reported accumulation-low percent is      *)
(* <= 0; the early and the late window partition the retained rows.        *)
(***************************************************************************)
\* what the claim says of one result
BottomAnchorsPhase(r) ==
    /\ r.chunk[1].td = 0
    /\ PctIs(r.chunk[1].pct, 0)
    /\ 1 \in EarlyRows(r)
    /\ PctLE(r.low_pct, Pct(1, 1))
    /\ Len(StockFirst200(r.chunk)) + Len(StockAfter200(r.chunk)) = Len(r.chunk)
    /\ \A j \in DOMAIN r.chunk :
           (r.chunk[j].td <= ACCUM_TD) # (r.chunk[j].td > ACCUM_TD)

\* C27: every analysed phase is anchored at percent 0 on its bottom row
C27_BottomIsZeroPercent ==
    script = "stocks" => \A k \in DOMAIN results : BottomAnchorsPhase(results[k])

\* C27 for the phases whose bottom price is positive
C27_WithPositiveBottom ==
    script = "stocks" =>
        \A k \in DOMAIN results : Ref(k) > 0 => BottomAnchorsPhase(results[k])

(***************************************************************************)
(* C24: after load_data(current_price) with a price, the frame holds       *)
(* exactly one row dated today (UTC) and its mkt_price is that price: a    *)
(* row of today that was there is overwritten and none is added, otherwise *)
(* one row is appended; the frame stays in ascending date order.  This     *)
(* for every numeric price fetch_data() returns, 0 included.               *)
(***************************************************************************)
\* the rows of the returned frame dated today
TodayRows == {k \in DOMAIN merged[1].rows : merged[1].rows[k].date = merged[1].today}

\* the frame had a row of today before the price went in
HadToday == \E k \in DOMAIN merged[1].base : merged[1].base[k].date = merged[1].today

\* the rows dated today carry the price; one row more than before exactly
\* when there was none of today; ascending dates
PriceIsIn ==
    /\ TodayRows # {}
    /\ \A k \in TodayRows : merged[1].rows[k].mkt_price = Some(current_price[1])
    /\ Len(merged[1].rows) =
           Len(FromStart(merged[1].base)) + (IF HadToday THEN 0 ELSE 1)
    /\ \A k \in 1..(Len(merged[1].rows) - 1) :
           merged[1].rows[k].date <= merged[1].rows[k + 1].date

\* C24: with any price, 0 included, exactly one row of today, with the price
C24_TodayRowHasPrice ==
    (script = "dashboard" /\ merged # None /\ current_price # None) =>
        PriceIsIn /\ Cardinality(TodayRows) = 1

\* C24 for a price that is not 0, and without "exactly one"
C24_NonZeroPriceIsIn ==
    (script = "dashboard" /\ merged # None /\ PriceTruthy(current_price)) =>
        PriceIsIn

(***************************************************************************)
(* C25: the segmentation loop of build_dashboard() cuts price_df into      *)
(* maximal runs: the segments, put together in order, are price_df with no *)
(* row lost or repeated; every row of a segment has mkt_price >=           *)
(* realized_price exactly when the segment's flag says so; neighbouring    *)
(* segments have opposite flags; only the segments of fewer than 2 rows    *)
(* get no fill.                                                            *)
(***************************************************************************)
\* the rows of the segments, in order
RECURSIVE Concat(_)
Concat(segs) == IF segs = <<>> THEN <<>> ELSE Head(segs).rows \o Concat(Tail(segs))

\* the segments that got a fill, as the places they have among the segments
FilledPlaces(f) ==
    {k \in DOMAIN f.segments :
        \E j \in DOMAIN f.fills :
            /\ f.fills[j] = f.segments[k]
            /\ Cardinality({h \in 1..k : Len(f.segments[h].rows) >= 2}) = j}

\* C25: for a price_df of more than one row (the loop runs only then)
C25_SegmentsPartition ==
    (script = "dashboard" /\ fig # None /\ Len(fig[1].price_df) > 1) =>
        LET f == fig[1]
        IN  /\ Concat(f.segments) = f.price_df
            /\ \A k \in DOMAIN f.segments :
                   /\ Len(f.segments[k].rows) > 0
                   /\ \A j \in DOMAIN f.segments[k].rows :
                          (f.segments[k].rows[j].mkt_price[1]
                               >= f.segments[k].rows[j].realized_price[1])
                          = f.segments[k].is_above
            /\ \A k \in 1..(Len(f.segments) - 1) :
                   f.segments[k].is_above # f.segments[k + 1].is_above
            /\ FilledPlaces(f) = {k \in DOMAIN f.segments : Len(f.segments[k].rows) >= 2}
            /\ Len(f.fills) = Cardinality(FilledPlaces(f))

\* three runs: the first of two rows and filled, the other two of a single
\* row each and without a fill
C25_Witness ==
    /\ script = "dashboard"
    /\ fig # None
    /\ Len(fig[1].segments) = 3
    /\ Len(fig[1].segments[2].rows) = 1
    /\ Len(fig[1].fills) = 1
    /\ fig[1].segments[1].is_above
    /\ Len(fig[1].segments[1].rows) = 2

(***************************************************************************)
(* C26: mvrv_zone() gives every MVRV value exactly one zone, with the      *)
(* bounds 0, 3.7 and 7 (v < 0, 0 <= v < 3.7, 3.7 <= v < 7, v >= 7); the    *)
(* four masks of zone_defs select exactly one line trace for every value,  *)
(* with the same bounds; so the colour of the stat card of the current     *)
(* value is the colour of the chart line at that value.                    *)
(***************************************************************************)
\* the colour the stated bounds give a value (in tenths: 37 is 3.7)
ColourByBounds(v) ==
    CASE v < 0               -> "#00ff88"
      [] v >= 0 /\ v < 37    -> "#ffd700"
      [] v >= 37 /\ v < 70   -> "#ff8c00"
      [] v >= 70             -> "#ff4444"

\* C26: one line colour at every row, the one the bounds give; the stat
\* card has the colour the bounds give the current value, which is the
\* colour of the line at the last row of mvrv_df
C26_CardColourIsLineColour ==
    (script = "dashboard" /\ fig # None) =>
        LET f == fig[1]
        IN  /\ \A k \in DOMAIN f.lines :
                   /\ Cardinality(f.lines[k]) = 1
                   /\ f.lines[k] = {ColourByBounds(f.mvrv_df[k].mvrv_zscore[1])}
            /\ f.zone_color = ColourByBounds(f.current_mvrv)
            /\ f.current_mvrv = f.mvrv_df[Len(f.mvrv_df)].mvrv_zscore[1]
            /\ f.lines[Len(f.mvrv_df)] = {f.zone_color}

\* the current value is 3.7 exactly, on the bound of two zones, and the
\* line has gone through two other zones before
C26_Witness ==
    /\ script = "dashboard"
    /\ fig # None
    /\ fig[1].current_mvrv = MVRV_FAIR_TOP
    /\ fig[1].zone_color = "#ff8c00"
    /\ \E k \in DOMAIN fig[1].lines : fig[1].lines[k] = {"#00ff88"}
    /\ \E k \in DOMAIN fig[1].lines : fig[1].lines[k] = {"#ff4444"}

(***************************************************************************)
(* C21: the dashboard run fetches, then loads and merges, then builds,     *)
(* then writes the HTML output once, in that order; the output is written  *)
(* only after the three earlier stages are complete, and a failure in load *)
(* or build leaves no new or partly written output file.                   *)
(***************************************************************************)
\* the places of a line on the console
PlacesOf(line) == {k \in DOMAIN console : console[k] = line}

\* C21: what each stage finds done when it starts, and what a stopped run
\* leaves
C21_WriteComesLast ==
    script = "dashboard" =>
        /\ pc = "fetch" => (merged = None /\ fig = None /\ ~saved)
        /\ pc = "load" =>
              (i = NUM_ENDPOINTS /\ merged = None /\ fig = None /\ ~saved)
        /\ pc = "build" =>
              (i = NUM_ENDPOINTS /\ merged # None /\ fig = None /\ ~saved)
        /\ pc = "write" =>
              (i = NUM_ENDPOINTS /\ merged # None /\ fig # None /\ ~saved)
        /\ pc = "crashed" => (fig = None /\ ~saved)
        /\ saved =>
              /\ pc = "done"
              /\ i = NUM_ENDPOINTS
              /\ merged # None
              /\ fig # None
        /\ Cardinality(PlacesOf(<<0, "Dashboard saved">>)) = (IF saved THEN 1 ELSE 0)
        /\ \A w \in PlacesOf(<<0, "Dashboard saved">>) :
               /\ \E l \in PlacesOf(<<0, "rows">>) : l < w
               /\ \A l \in PlacesOf(<<0, "rows">>) :
                      /\ 2 * NUM_ENDPOINTS + 1 < l
                      /\ l < w

\* a whole run: the output is written after the fetch (one endpoint
\* failed), the load and the build
C21_Witness ==
    /\ script = "dashboard"
    /\ pc = "done"
    /\ saved
    /\ FailedEndpoints # {}
    /\ merged # None
    /\ fig # None
    /\ PlacesOf(<<0, "Dashboard saved">>) # {}

\* a run stopped by the build: the frame is loaded, nothing is written
C21_BuildFailed ==
    /\ script = "dashboard"
    /\ pc = "crashed"
    /\ merged # None
    /\ ~saved

\* a run stopped by the load: nothing is built, nothing is written
C21_LoadFailed ==
    /\ script = "dashboard"
    /\ pc = "crashed"
    /\ merged = None
    /\ ~saved

=============================================================================
